---- MODULE Spec2Model ----
(***************************************************************************)
(* Corridors API (src/fastapi/main.py): a FastAPI service that serves      *)
(* three PostGIS relations as GeoJSON, with an optional bounding-box       *)
(* filter, plus a health probe and a best-effort startup import.           *)
(*                                                                         *)
(* Values.  Every SQL / Python value is a tuple so that values of          *)
(* different shapes can be compared: NULL and None are <<>>, the number v  *)
(* is <<v>>, a stored geometry is its envelope <<x1, y1, x2, y2>> and a    *)
(* GeoJSON geometry is <<"Polygon", ring>>.                                *)
(***************************************************************************)
EXTENDS Integers, Sequences, FiniteSets, TLC

VARIABLES phase, importResult, log, tables, req

vars == <<phase, importResult, log, tables, req>>

(***************************************************************************)
(* Bounds of the model.                                                    *)
(***************************************************************************)
\* Bounding-box parameters are None or a whole number of degrees 0..MaxCoord.
MaxCoord == 1
\* A relation holds at most MaxRows rows.
MaxRows == 2

NULL == <<>>
None == <<>>
Num(v) == <<v>>

Kinds == {"2d", "3d", "hdb"}
\* The clients whose requests are in flight together.
Clients == {"c1", "c2"}

(***************************************************************************)
(* The relations and the columns each query selects.                       *)
(***************************************************************************)
TableOf(kind) ==
    CASE kind = "2d" -> "corridors_2d_4326"
      [] kind = "3d" -> "network_3d_4326"
      [] kind = "hdb" -> "hdb_footprints_4326"

Columns2D ==
    <<"OBJECTID", "PLN_AREA_N", "PLN_AREA_C", "CA_IND", "REGION_N", "REGION_C",
      "INC_CRC", "FMEL_UPD_D", "SHAPE.AREA", "SHAPE.LEN", "Total_Population",
      "Total_Males", "Total_Females", "LabourForce_Total_Total", "LabourForce_Total_Males",
      "LabourForce_Total_Females", "LabourForce_Employed_Total", "LabourForce_Employed_Males",
      "LabourForce_Employed_Females", "LabourForce_Unemployed_Total", "LabourForce_Unemployed_Males",
      "LabourForce_Unemployed_Females", "OutsidetheLabourForce_Total", "OutsidetheLabourForce_Males",
      "OutsidetheLabourForce_Females", "Area_km2", "Pop_Density", "priorityID">>

Columns3D ==
    <<"min_altitude", "corridor_type", "max_altitude", "volume_m3", "priorityID">>

ColumnsHDB ==
    <<"feat_id", "height", "levels">>

\* The attribute columns of a SELECT, without id and geom.
Columns(kind) ==
    CASE kind = "2d" -> Columns2D
      [] kind = "3d" -> Columns3D
      [] kind = "hdb" -> ColumnsHDB

Range(s) == {s[i] : i \in DOMAIN s}

\* The keys of a RealDictCursor row: id, the attribute columns, geom.
RowKeys(kind) == {"id", "geom"} \cup Range(Columns(kind))

(***************************************************************************)
(* The store: tables maps each relation to its rows in physical (heap)     *)
(* order.  A store the import can load is built from a layout, the         *)
(* sequence of geometries loaded: each relation holds one row per entry.   *)
(* The ids are distinct but the heap order is not the id order: descending *)
(* in corridors_2d_4326, ascending with gaps in network_3d_4326, rotated   *)
(* in hdb_footprints_4326.                                                 *)
(***************************************************************************)
GeomA == <<0, 0, 0, 0>>
GeomB == <<1, 1, 2, 2>>
Geoms == {NULL, GeomA, GeomB}

RECURSIVE SeqsUpTo(_, _)
SeqsUpTo(S, n) ==
    IF n = 0 THEN {<<>>}
    ELSE LET shorter == SeqsUpTo(S, n - 1)
         IN shorter \cup {Append(s, x) : s \in {t \in shorter : Len(t) = n - 1}, x \in S}

Layouts == SeqsUpTo(Geoms, MaxRows)

IdAt(kind, i, n) ==
    CASE kind = "2d" -> n + 1 - i
      [] kind = "3d" -> 2 * i
      [] kind = "hdb" -> (i % n) + 1

\* An attribute value: a number, or NULL for some rows and columns.
AttrValue(id, j) ==
    IF (id + j) % 4 = 0 THEN NULL ELSE Num(10 * id + j)

StoredRow(kind, id, geom) ==
    [c \in RowKeys(kind) |->
        IF c = "id" THEN Num(id)
        ELSE IF c = "geom" THEN geom
        ELSE AttrValue(id, CHOOSE j \in DOMAIN Columns(kind) : Columns(kind)[j] = c)]

Relation(kind, lay) ==
    [i \in 1..Len(lay) |-> StoredRow(kind, IdAt(kind, i, Len(lay)), lay[i])]

TableNames == {TableOf(k) : k \in Kinds}

KindOfTable(name) == CHOOSE k \in Kinds : TableOf(k) = name

StoreOf(lay) == [name \in TableNames |-> Relation(KindOfTable(name), lay)]

Stores == {StoreOf(lay) : lay \in Layouts}

EmptyStore == StoreOf(<<>>)

(***************************************************************************)
(* The query each dataset operation builds (lines 57-72, 92-101, 131-140). *)
(***************************************************************************)
Coords == {None} \cup {Num(v) : v \in 0..MaxCoord}

\* Every (min_lon, min_lat, max_lon, max_lat) a request can carry.
AllBBoxes == {<<a, b, c, d>> : a \in Coords, b \in Coords, c \in Coords, d \in Coords}

NoBBox == <<None, None, None, None>>

\* A mutant of BBoxGiven: the parameters are tested for truth, and 0 is false.
BBoxGivenTruthy(bbox) ==
    \A i \in 1..4 : bbox[i] # None /\ bbox[i] # Num(0)

\* A mutant of BBoxGiven: one given parameter is enough.
BBoxGivenAny(bbox) ==
    \E i \in 1..4 : bbox[i] # None

\* min_lon is not None and min_lat is not None and max_lon is not None
\* and max_lat is not None
BBoxGiven(bbox) ==
    \A i \in 1..4 : bbox[i] # None

\* query, params as passed to cur.execute: the WHERE clause is appended,
\* with its four parameters, only for a fully given box; ORDER BY id always.
BuildQuery(kind, bbox) ==
    [from    |-> TableOf(kind),
     select  |-> RowKeys(kind),
     where   |-> BBoxGiven(bbox),
     params  |-> IF BBoxGiven(bbox) THEN <<bbox[1], bbox[2], bbox[3], bbox[4]>> ELSE <<>>,
     orderBy |-> "id"]

(***************************************************************************)
(* The store's side of the query: PostGIS functions and SQL evaluation.    *)
(***************************************************************************)
Min(a, b) == IF a <= b THEN a ELSE b
Max(a, b) == IF a >= b THEN a ELSE b

\* ST_MakeEnvelope(xmin, ymin, xmax, ymax, 4326): strict, NULL on a NULL
\* argument; otherwise the rectangle through the two corners.
ST_MakeEnvelope(p) ==
    IF \E i \in 1..4 : p[i] = NULL THEN NULL
    ELSE <<p[1][1], p[2][1], p[3][1], p[4][1]>>

\* ST_Intersects(geom, env): NULL on a NULL argument, else whether the two
\* closed rectangles overlap.
ST_Intersects(g, e) ==
    IF g = NULL \/ e = NULL THEN NULL
    ELSE <<  /\ Max(Min(g[1], g[3]), Min(e[1], e[3])) <= Min(Max(g[1], g[3]), Max(e[1], e[3]))
             /\ Max(Min(g[2], g[4]), Min(e[2], e[4])) <= Min(Max(g[2], g[4]), Max(e[2], e[4])) >>

\* ST_AsGeoJSON(geom)::json: NULL for NULL, else the polygon's ring.
ST_AsGeoJSON(g) ==
    IF g = NULL THEN NULL
    ELSE <<"Polygon", << <<g[1], g[2]>>, <<g[1], g[4]>>, <<g[3], g[4]>>,
                         <<g[3], g[2]>>, <<g[1], g[2]>> >> >>

\* ORDER BY id: insertion of each row before the first row with a larger id.
RECURSIVE InsertById(_, _)
InsertById(sorted, r) ==
    IF sorted = <<>> THEN <<r>>
    ELSE IF r["id"][1] < Head(sorted)["id"][1] THEN <<r>> \o sorted
    ELSE <<Head(sorted)>> \o InsertById(Tail(sorted), r)

RECURSIVE OrderById(_)
OrderById(rows) ==
    IF rows = <<>> THEN <<>>
    ELSE InsertById(OrderById(Tail(rows)), Head(rows))

\* cur.execute(query, params) against the relations: WHERE keeps the rows
\* for which the predicate is true (not false, not NULL).
ExecuteQuery(q, tbls) ==
    LET kept(r) == (~q.where) \/ ST_Intersects(r["geom"], ST_MakeEnvelope(q.params)) = <<TRUE>>
        selected == SelectSeq(tbls[q.from], kept)
        projected == [i \in 1..Len(selected) |->
                        [c \in q.select |->
                            IF c = "geom" THEN ST_AsGeoJSON(selected[i]["geom"])
                            ELSE selected[i][c]]]
    IN OrderById(projected)

(***************************************************************************)
(* The row-to-feature loop (lines 75-86, 104-115, 143-154).                *)
(***************************************************************************)
\* r.pop(key, None): the value, and the dict without the key.
PopValue(r, key) == IF key \in DOMAIN r THEN r[key] ELSE None
PopRest(r, key) == [c \in DOMAIN r \ {key} |-> r[c]]

\* A mutant of Properties: the id is not popped.
PropertiesKeepId(r) == PopRest(r, "geom")

\* dict(r) after r.pop("geom", None) and r.pop("id", None).
Properties(r) == PopRest(PopRest(r, "geom"), "id")

MakeFeature(r) ==
    [type |-> "Feature", properties |-> Properties(r), geometry |-> PopValue(r, "geom")]

\* A mutant of Assemble: a row without geometry is not skipped.
RECURSIVE AssembleKeepNull(_, _)
AssembleKeepNull(rows, features) ==
    IF rows = <<>> THEN features
    ELSE AssembleKeepNull(Tail(rows), Append(features, MakeFeature(Head(rows))))

\* A mutant of Assemble: each feature is put in front of the list.
RECURSIVE AssembleReversed(_, _)
AssembleReversed(rows, features) ==
    IF rows = <<>> THEN features
    ELSE IF PopValue(Head(rows), "geom") = None
         THEN AssembleReversed(Tail(rows), features)
         ELSE AssembleReversed(Tail(rows), <<MakeFeature(Head(rows))>> \o features)

\* for r in rows: ... if geom is None: continue; features.append({...})
RECURSIVE Assemble(_, _)
Assemble(rows, features) ==
    IF rows = <<>> THEN features
    ELSE IF PopValue(Head(rows), "geom") = None
         THEN Assemble(Tail(rows), features)
         ELSE Assemble(Tail(rows), Append(features, MakeFeature(Head(rows))))

FeatureCollection(rows) ==
    [type |-> "FeatureCollection", features |-> Assemble(rows, <<>>)]

(***************************************************************************)
(* Requests.  req[c] is the request client c has in flight:                *)
(*   pc    "idle", "connected", "executed", "fetched", "done" (a response  *)
(*         was returned by the handler) or "failed" (the handler raised    *)
(*         and the framework answered 500);                                *)
(*   conn  the psycopg2 connection: "none", "open" or "closed";            *)
(*   cur   the cursor: "none", "open" or "closed";                         *)
(*   buffer  the result set the cursor holds after execute;                *)
(*   rows  what fetchall returned;                                         *)
(*   connects  how many times the request called psycopg2.connect.         *)
(* A psycopg2 connection used as a context manager ends the transaction    *)
(* on exit (commit, or rollback on an exception) and stays open; it is     *)
(* closed when the connection object is deallocated, which CPython does    *)
(* when the handler's frame is released: at the return of a handler, or,   *)
(* for a handler that raised, when the framework drops the exception and   *)
(* its traceback, after the 500 response was sent.                         *)
(***************************************************************************)
NoResponse == [status |-> 0, body |-> <<>>]

IdleRequest ==
    [pc |-> "idle", kind |-> "none", bbox |-> NoBBox, conn |-> "none", cur |-> "none",
     buffer |-> <<>>, rows |-> <<>>, resp |-> NoResponse, error |-> "", connects |-> 0]

ConnectError == "could not connect to server"
ExecuteError == "relation does not exist"
FetchError == "server closed the connection unexpectedly"

\* JSONResponse(content=...): status 200 with the content as body.
JSONResponse(content) == [status |-> 200, body |-> content]

\* The framework's answer to an exception a handler raised.
ServerError == [status |-> 500, body |-> "Internal Server Error"]

Serving == phase = "serving"

(***************************************************************************)
(* lifespan (lines 19-27): import_data is loaded outside the try block,    *)
(* run_import runs inside it.                                              *)
(***************************************************************************)
ImportWarning(e) == "Startup import warning: " \o e

ImportFailure == "import failed"

Lifespan ==
    /\ phase = "boot"
    /\ \/ \* from import_data import run_import raises: lifespan raises
          /\ importResult' = "unloadable"
          /\ phase' = "startup_failed"
          /\ UNCHANGED <<log, tables>>
       \/ \* run_import returns
          /\ importResult' = "ok"
          /\ tables' \in Stores
          /\ phase' = "serving"
          /\ UNCHANGED log
       \/ \* run_import raises an Exception: print the warning, then yield
          /\ importResult' = "raised"
          /\ tables' \in Stores
          /\ log' = Append(log, ImportWarning(ImportFailure))
          /\ phase' = "serving"
    /\ UNCHANGED req

(***************************************************************************)
(* GET /health (lines 42-51).                                              *)
(***************************************************************************)
HealthBody(db) == [status |-> "ok", database |-> db]

\* psycopg2.connect(DATABASE_URL) of health: on an error the except clause
\* sets db = str(e) and the handler returns.
HealthConnect(c) ==
    /\ Serving
    /\ req[c].pc = "idle"
    /\ \/ req' = [req EXCEPT ![c] = [IdleRequest EXCEPT
                    !.pc = "connected", !.kind = "health", !.conn = "open", !.connects = 1]]
       \/ req' = [req EXCEPT ![c] = [IdleRequest EXCEPT
                    !.pc = "done", !.kind = "health", !.connects = 1,
                    !.error = ConnectError,
                    !.resp = [status |-> 200, body |-> HealthBody(ConnectError)]]]
    /\ UNCHANGED <<phase, importResult, log, tables>>

\* A mutant of HealthProbe: an error of the probe is not caught.
HealthProbeRaises(c) ==
    /\ Serving
    /\ req[c].pc = "connected" /\ req[c].kind = "health"
    /\ \/ req' = [req EXCEPT ![c].pc = "done", ![c].cur = "closed", ![c].conn = "closed",
                             ![c].resp = [status |-> 200, body |-> HealthBody("ok")]]
       \/ req' = [req EXCEPT ![c].pc = "failed", ![c].cur = "closed",
                             ![c].error = ExecuteError, ![c].resp = ServerError]
    /\ UNCHANGED <<phase, importResult, log, tables>>

\* conn.cursor(), cur.execute("SELECT 1"), both with-exits, and the return;
\* an error is caught and its text returned.  The cursor's exit closes it;
\* the handler's return releases the frame and with it the connection.
HealthProbe(c) ==
    /\ Serving
    /\ req[c].pc = "connected" /\ req[c].kind = "health"
    /\ \/ req' = [req EXCEPT ![c].pc = "done", ![c].cur = "closed", ![c].conn = "closed",
                             ![c].resp = [status |-> 200, body |-> HealthBody("ok")]]
       \/ req' = [req EXCEPT ![c].pc = "done", ![c].cur = "closed", ![c].conn = "closed",
                             ![c].error = ExecuteError,
                             ![c].resp = [status |-> 200, body |-> HealthBody(ExecuteError)]]
    /\ UNCHANGED <<phase, importResult, log, tables>>

(***************************************************************************)
(* The dataset operations get_2d_corridors_geojson, get_3d_network_geojson *)
(* and get_hdb_footprints_geojson, called by their endpoints (lines 54-86, *)
(* 89-115, 128-154, 118-125, 157-159).                                     *)
(***************************************************************************)
\* The endpoint is called with its parsed parameters, a box out of boxes, and
\* the operation connects; a connect error propagates out of the handler.
Connect(c, boxes) ==
    /\ Serving
    /\ req[c].pc = "idle"
    /\ \E kind \in Kinds, bbox \in boxes :
        \/ req' = [req EXCEPT ![c] = [IdleRequest EXCEPT
                    !.pc = "connected", !.kind = kind, !.bbox = bbox,
                    !.conn = "open", !.connects = 1]]
        \/ req' = [req EXCEPT ![c] = [IdleRequest EXCEPT
                    !.pc = "failed", !.kind = kind, !.bbox = bbox, !.connects = 1,
                    !.error = ConnectError, !.resp = ServerError]]
    /\ UNCHANGED <<phase, importResult, log, tables>>

\* A mutant of Execute: a query error is swallowed and an empty collection
\* is returned.
ExecuteSwallows(c) ==
    /\ Serving
    /\ req[c].pc = "connected" /\ req[c].kind \in Kinds
    /\ \/ req' = [req EXCEPT ![c].pc = "executed", ![c].cur = "open",
                    ![c].buffer = ExecuteQuery(BuildQuery(req[c].kind, req[c].bbox), tables)]
       \/ req' = [req EXCEPT ![c].pc = "done", ![c].cur = "closed", ![c].conn = "closed",
                    ![c].error = ExecuteError,
                    ![c].resp = JSONResponse(FeatureCollection(<<>>))]
    /\ UNCHANGED <<phase, importResult, log, tables>>

\* conn.cursor(cursor_factory=RealDictCursor), the query is built and
\* executed.  On an error the cursor's exit closes it, the connection's exit
\* rolls back, and the exception propagates.
Execute(c) ==
    /\ Serving
    /\ req[c].pc = "connected" /\ req[c].kind \in Kinds
    /\ \/ req' = [req EXCEPT ![c].pc = "executed", ![c].cur = "open",
                    ![c].buffer = ExecuteQuery(BuildQuery(req[c].kind, req[c].bbox), tables)]
       \/ req' = [req EXCEPT ![c].pc = "failed", ![c].cur = "closed",
                    ![c].error = ExecuteError, ![c].resp = ServerError]
    /\ UNCHANGED <<phase, importResult, log, tables>>

\* A mutant of Fetch: the fetched rows are consumed from the relation.
FetchConsumes(c) ==
    /\ Serving
    /\ req[c].pc = "executed"
    /\ req' = [req EXCEPT ![c].pc = "fetched", ![c].cur = "closed",
                          ![c].rows = req[c].buffer, ![c].buffer = <<>>]
    /\ tables' = [tables EXCEPT ![TableOf(req[c].kind)] = <<>>]
    /\ UNCHANGED <<phase, importResult, log>>

\* rows = cur.fetchall(), then the cursor's exit (close) and the
\* connection's exit (commit).  An error in either propagates.
Fetch(c) ==
    /\ Serving
    /\ req[c].pc = "executed"
    /\ \/ req' = [req EXCEPT ![c].pc = "fetched", ![c].cur = "closed",
                             ![c].rows = req[c].buffer, ![c].buffer = <<>>]
       \/ req' = [req EXCEPT ![c].pc = "failed", ![c].cur = "closed", ![c].buffer = <<>>,
                             ![c].error = FetchError, ![c].resp = ServerError]
    /\ UNCHANGED <<phase, importResult, log, tables>>

\* The feature loop and the return through JSONResponse; the return
\* releases the frame and with it the connection.
Return(c) ==
    /\ Serving
    /\ req[c].pc = "fetched"
    /\ req' = [req EXCEPT ![c].pc = "done", ![c].conn = "closed",
                          ![c].resp = JSONResponse(FeatureCollection(req[c].rows))]
    /\ UNCHANGED <<phase, importResult, log, tables>>

\* The framework drops the exception of a failed handler; the traceback's
\* frame, and the connection it still refers to, are deallocated.
ReleaseTraceback(c) ==
    /\ req[c].pc = "failed"
    /\ req[c].conn = "open"
    /\ req' = [req EXCEPT ![c].conn = "closed"]
    /\ UNCHANGED <<phase, importResult, log, tables>>

\* The client is done with the response and may send its next request.
NextRequest(c) ==
    /\ req[c].pc \in {"done", "failed"}
    /\ req[c].conn # "open"
    /\ req' = [req EXCEPT ![c] = IdleRequest]
    /\ UNCHANGED <<phase, importResult, log, tables>>

(***************************************************************************)
(* Specifications.                                                         *)
(***************************************************************************)
Init ==
    /\ phase = "boot"
    /\ importResult = "pending"
    /\ log = <<>>
    /\ tables = EmptyStore
    /\ req = [c \in Clients |-> IdleRequest]

\* The boxes the concurrent requests of Spec carry: none, a partial box,
\* and full boxes, one of them with zero coordinates and one inverted.
SampleBBoxes ==
    {NoBBox,
     <<Num(0), None, Num(1), Num(1)>>,
     <<Num(0), Num(0), Num(0), Num(0)>>,
     <<Num(1), Num(1), Num(0), Num(0)>>}

\* The service with two clients whose requests interleave.
Next ==
    \/ Lifespan
    \/ \E c \in Clients : HealthConnect(c)
    \/ \E c \in Clients : HealthProbe(c)
    \/ \E c \in Clients : Connect(c, SampleBBoxes)
    \/ \E c \in Clients : Execute(c)
    \/ \E c \in Clients : Fetch(c)
    \/ \E c \in Clients : Return(c)
    \/ \E c \in Clients : ReleaseTraceback(c)
    \/ \E c \in Clients : NextRequest(c)

Spec == Init /\ [][Next]_vars

\* One client sending one request after another, with every bounding box.
QueryClient == "c1"

QueryNext ==
    \/ Lifespan
    \/ HealthConnect(QueryClient)
    \/ HealthProbe(QueryClient)
    \/ Connect(QueryClient, AllBBoxes)
    \/ Execute(QueryClient)
    \/ Fetch(QueryClient)
    \/ Return(QueryClient)
    \/ ReleaseTraceback(QueryClient)
    \/ NextRequest(QueryClient)

QuerySpec == Init /\ [][QueryNext]_vars

(***************************************************************************)
(* What the claims compare the responses with: the rows of a relation      *)
(* that a box selects, stated on sets of grid points and independently of  *)
(* the query the operations build.                                         *)
(***************************************************************************)
Grid == 0..Max(MaxCoord, 3)

\* The point <<x, y>> lies in the closed rectangle with corners
\* <<r[1], r[2]>> and <<r[3], r[4]>>.
Covers(r, x, y) ==
    /\ (r[1] <= x /\ x <= r[3]) \/ (r[3] <= x /\ x <= r[1])
    /\ (r[2] <= y /\ y <= r[4]) \/ (r[4] <= y /\ y <= r[2])

FullySpecified(bbox) == \A i \in 1..4 : Len(bbox[i]) = 1

Rectangle(bbox) == <<bbox[1][1], bbox[2][1], bbox[3][1], bbox[4][1]>>

HasGeometry(r) == Len(r["geom"]) > 0

\* The stored rows with a geometry that shares a point with the box.
Intersecting(kind, bbox) ==
    {r \in Range(tables[TableOf(kind)]) :
        /\ HasGeometry(r)
        /\ \E x \in Grid, y \in Grid : Covers(r["geom"], x, y) /\ Covers(Rectangle(bbox), x, y)}

\* The stored rows with a geometry.
WithGeometry(kind) == {r \in Range(tables[TableOf(kind)]) : HasGeometry(r)}

\* The rows of a set in ascending id order.
RECURSIVE Ascending(_)
Ascending(S) ==
    IF S = {} THEN <<>>
    ELSE LET first == CHOOSE r \in S : \A o \in S : r["id"][1] <= o["id"][1]
         IN <<first>> \o Ascending(S \ {first})

\* The feature a stored row stands for.
FeatureOf(kind, r) ==
    [type |-> "Feature",
     properties |-> [col \in Range(Columns(kind)) |-> r[col]],
     geometry |-> ST_AsGeoJSON(r["geom"])]

FeaturesOf(kind, S) ==
    LET rows == Ascending(S) IN [i \in 1..Len(rows) |-> FeatureOf(kind, rows[i])]

Answered(c) == req[c].pc = "done" /\ req[c].kind \in Kinds

Features(c) == req[c].resp.body.features

\* C1: a dataset request with all four box parameters given, zero values
\* included, returns exactly the stored rows whose geometry intersects the
\* rectangle, in ascending id order.
C1_FullBoxReturnsIntersecting ==
    \A c \in Clients :
        (Answered(c) /\ FullySpecified(req[c].bbox)) =>
            /\ req[c].resp.status = 200
            /\ Features(c) = FeaturesOf(req[c].kind, Intersecting(req[c].kind, req[c].bbox))

\* A box with a zero coordinate selected some rows and left out a row that
\* has a geometry.
C1_Witness ==
    \E c \in Clients :
        /\ Answered(c) /\ FullySpecified(req[c].bbox)
        /\ \E i \in 1..4 : req[c].bbox[i] = Num(0)
        /\ Len(Features(c)) >= 1
        /\ Len(Features(c)) < Cardinality(WithGeometry(req[c].kind))

\* C2: a dataset request that omits one, two or three of the box parameters
\* returns what a request without any of them returns: every stored row
\* with a geometry, no predicate applied.
C2_PartialBoxIsNoFilter ==
    \A c \in Clients :
        (Answered(c) /\ ~FullySpecified(req[c].bbox)) =>
            /\ req[c].resp.status = 200
            /\ Features(c) = FeaturesOf(req[c].kind, WithGeometry(req[c].kind))

\* Three parameters were given, the fourth omitted, and the rows returned
\* include one that the box of the given corner does not touch.
C2_Witness ==
    \E c \in Clients :
        /\ Answered(c)
        /\ Cardinality({i \in 1..4 : req[c].bbox[i] # None}) = 3
        /\ req[c].bbox[1] = Num(0) /\ req[c].bbox[2] = Num(0)
        /\ Len(Features(c)) = 2
        /\ \E r \in WithGeometry(req[c].kind) : ~Covers(r["geom"], 0, 0)

NullRows(rows) == {i \in DOMAIN rows : rows[i]["geom"] = NULL}

\* C3: no returned feature has a null geometry, and the number of features
\* is the number of fetched rows minus the number of rows without geometry.
C3_NoNullGeometry ==
    \A c \in Clients :
        Answered(c) =>
            /\ \A k \in DOMAIN Features(c) : Features(c)[k].geometry # None
            /\ Len(Features(c)) = Len(req[c].rows) - Cardinality(NullRows(req[c].rows))

\* Rows with and without a geometry were fetched.
C3_Witness ==
    \E c \in Clients :
        /\ Answered(c)
        /\ NullRows(req[c].rows) # {}
        /\ Len(Features(c)) >= 1

\* C4: the properties of a returned feature hold neither the id key nor
\* the geometry column key.
C4_NoInternalId ==
    \A c \in Clients :
        Answered(c) =>
            \A k \in DOMAIN Features(c) :
                /\ "id" \notin DOMAIN Features(c)[k].properties
                /\ "geom" \notin DOMAIN Features(c)[k].properties

\* Features were built from fetched rows that carry an id.
C4_Witness ==
    \E c \in Clients :
        /\ Answered(c)
        /\ Len(Features(c)) >= 1
        /\ \A i \in DOMAIN req[c].rows : "id" \in DOMAIN req[c].rows[i]

\* C9: the features are the fetched rows that have a geometry, in the rows'
\* order, one feature per row; the properties are the row's columns, names
\* and values unchanged, without id and geom.
C9_OrderAndPassThrough ==
    \A c \in Clients :
        Answered(c) =>
            LET rows == req[c].rows
                kept == DOMAIN rows \ NullRows(rows)
            IN /\ Len(Features(c)) = Cardinality(kept)
               /\ \A i \in kept :
                    LET k == Cardinality({j \in kept : j <= i})
                    IN /\ Features(c)[k].geometry = rows[i]["geom"]
                       /\ DOMAIN Features(c)[k].properties = DOMAIN rows[i] \ {"id", "geom"}
                       /\ \A col \in DOMAIN rows[i] \ {"id", "geom"} :
                            Features(c)[k].properties[col] = rows[i][col]

\* Two rows became two features, and a NULL attribute value was passed on.
C9_Witness ==
    \E c \in Clients :
        /\ Answered(c)
        /\ Len(Features(c)) = 2
        /\ \E col \in DOMAIN Features(c)[1].properties :
              Features(c)[1].properties[col] = NULL

\* C5: GET /health never fails: it answers 200 with status "ok", and
\* database "ok" when the probe succeeded or the error text when
\* connecting or executing the probe raised.
C5_HealthNeverFails ==
    \A c \in Clients :
        req[c].kind = "health" =>
            /\ req[c].pc # "failed"
            /\ req[c].pc = "done" =>
                /\ req[c].resp.status = 200
                /\ req[c].resp.body.status = "ok"
                /\ req[c].error = "" => req[c].resp.body.database = "ok"
                /\ req[c].error # "" => req[c].resp.body.database = req[c].error

\* A health request whose probe raised after the connection was opened.
C5_Witness ==
    \E c \in Clients :
        /\ req[c].kind = "health" /\ req[c].pc = "done"
        /\ req[c].error = ExecuteError
        /\ req[c].cur = "closed"

\* What a dataset request is to return: the rows the box selects when it is
\* fully specified, every row with a geometry otherwise.
CompleteCollection(kind, bbox) ==
    [type |-> "FeatureCollection",
     features |-> FeaturesOf(kind, IF FullySpecified(bbox) THEN Intersecting(kind, bbox)
                                   ELSE WithGeometry(kind))]

\* C6: a dataset request either returns the complete collection, or, when
\* the store failed, fails with a server error; no success response is built
\* after a store failure and the store is never tried a second time.
C6_CompleteOrFailed ==
    \A c \in Clients :
        req[c].kind \in Kinds =>
            /\ req[c].connects <= 1
            /\ req[c].pc = "done" =>
                /\ req[c].error = ""
                /\ req[c].resp = JSONResponse(CompleteCollection(req[c].kind, req[c].bbox))
            /\ req[c].error # "" =>
                /\ req[c].pc = "failed"
                /\ req[c].resp.status = 500

\* A dataset request that failed in the query, while another client's
\* request was answered.
C6_Witness ==
    \E c, d \in Clients :
        /\ req[c].kind \in Kinds /\ req[c].pc = "failed" /\ req[c].error = ExecuteError
        /\ Answered(d) /\ Len(Features(d)) >= 1

\* C7: once a request has finished, by a return or by an exception, neither
\* the connection nor the cursor it opened is still open.
C7_ReleasedOnEveryExit ==
    \A c \in Clients :
        req[c].pc \in {"done", "failed"} =>
            /\ req[c].conn # "open"
            /\ req[c].cur # "open"

\* C8: whatever the failure of the startup import, being unloadable
\* included, it is logged and the service comes to accept requests.
C8_BestEffortStartup ==
    importResult # "pending" =>
        /\ phase = "serving"
        /\ importResult # "ok" => log # <<>>

\* C10: while the service serves requests the relations do not change, and
\* two answered requests for the same dataset and box carry the same
\* response, whatever ran before or beside them.
C10_ReadOnlyStateless ==
    /\ [][Serving => tables' = tables]_vars
    /\ [](\A c, d \in Clients :
            (Answered(c) /\ Answered(d) /\ req[c].kind = req[d].kind /\ req[c].bbox = req[d].bbox)
                => req[c].resp = req[d].resp)

\* Both clients were answered for the same dataset and box, with features.
C10_Witness ==
    \E c, d \in Clients :
        /\ c # d
        /\ Answered(c) /\ Answered(d)
        /\ req[c].kind = req[d].kind /\ req[c].bbox = req[d].bbox
        /\ Len(Features(c)) >= 1

====
